---- MODULE Spec2Model ----
(***************************************************************************)
(* Model of the slack-jira-bot dispatch loop (cmd/slack-bot/main.go), the  *)
(* bug modal flow (validateSubmissionHandler, Register) and the event      *)
(* router (ForEvents).  The handler-composition primitive, the modal       *)
(* router and the issue filer live in packages whose source is not part of *)
(* the tree; they are modelled from their written contract.                *)
(***************************************************************************)
EXTENDS Integers, Sequences, FiniteSets, TLC

\* ---------------------------------------------------------------- bounds
\* Number of envelopes the transport delivers in one run.
MaxDeliveries == 2
\* Longest handler chain composed in ChainSpec.
MaxHandlers == 3

\* ------------------------------------------------------ program constants
Identifier == "bug"
blockIdCategory == "category"
blockIdOptional == "optional"
componentSNO == "SNO"
componentOther == "Other"
OtherComponentMessage == "Provide a description of the other component."
RAErrors == "errors"

EventTypeEventsAPI == "events_api"
EventTypeInteractive == "interactive"
EventTypeHello == "hello"
InteractionTypeViewSubmission == "view_submission"
InteractionTypeViewClosed == "view_closed"

\* ------------------------------------------------------------ value space
NoErr == "nil"
MarshalError == "MarshalError"
RoutingMiss == "RoutingMiss"

\* A response payload: the JSON document, kept as its decoded content.
NoPayload == [action |-> "nil", errors |-> {}]

\* callback.View.State.Values[block] is a map from action id to the action;
\* the handlers only read the actions' values, so a block is the set of them.
Callback(itype, flow, view, category, optional) ==
    [itype |-> itype, flow |-> flow, user |-> "U1", view |-> view,
     category |-> category, optional |-> optional,
     symptom |-> "crash", expected |-> "no crash"]

\* The same callback with other text in the symptom and expected blocks.
WithText(cb, symptom, expected) ==
    [cb EXCEPT !.symptom = symptom, !.expected = expected]

NoCallback == Callback("none", "none", "none", {}, {})

Envelope(kind, typed, evType, cb) ==
    [kind |-> kind, typed |-> typed, evType |-> evType, cb |-> cb]

\* The envelopes the transport can deliver (and redeliver).
Envelopes ==
    {Envelope(EventTypeEventsAPI, TRUE, "app_mention", NoCallback),
     Envelope(EventTypeEventsAPI, TRUE, "message", NoCallback),
     Envelope(EventTypeEventsAPI, FALSE, "none", NoCallback),
     Envelope(EventTypeHello, TRUE, "none", NoCallback),
     Envelope(EventTypeInteractive, FALSE, "none", NoCallback),
     Envelope(EventTypeInteractive, TRUE, "none",
              Callback(InteractionTypeViewClosed, Identifier, "V1", {componentSNO}, {""})),
     Envelope(EventTypeInteractive, TRUE, "none",
              Callback(InteractionTypeViewSubmission, "stale", "V1", {componentSNO}, {""})),
     Envelope(EventTypeInteractive, TRUE, "none",
              WithText(Callback(InteractionTypeViewSubmission, Identifier, "V2",
                                {componentSNO}, {""}),
                       "hang", "no hang"))}
    \cup
    {Envelope(EventTypeInteractive, TRUE, "none",
              Callback(InteractionTypeViewSubmission, Identifier, "V1", {c}, o)) :
        c \in {componentSNO, componentOther}, o \in {{}, {""}, {"db"}}}

\* Identity of a logical submission: flow identifier, user, view instance.
SubmissionKey(cb) == <<cb.flow, cb.user, cb.view>>

VARIABLES
    deliveries,    \* envelopes read from socketClient.Events, in receipt order
    pc,            \* position of the dispatch goroutine
    cancelled,     \* ctx.Done() is closed
    payload,       \* main's local `payload` between Handle and Ack
    acks,          \* socketClient.Ack calls, in order: [d, payload]
    routed,        \* deliveries handed to a router's Handle
    results,       \* delivery -> result of the interaction router
    marshal,       \* whether json.Marshal of the validator's response succeeds
    tasks,         \* deliveries whose filing task is in flight
    trackerCalls,  \* calls that reached the tracker client, in order
    viewUpdates,   \* View Updater calls, in order
    logs,          \* log lines printed by the dispatch loop
    mentions,      \* events claimed by the mention handler
    eventResults,  \* delivery -> result of the event router
    exited,        \* main has returned: the process is gone
    chain,         \* ChainSpec: results the composed handlers would return
    chainOut       \* ChainSpec: result of the composed handler

vars == <<deliveries, pc, cancelled, payload, acks, routed, results, marshal, tasks,
          trackerCalls, viewUpdates, logs, mentions, eventResults, exited,
          chain, chainOut>>

\* ------------------------------------------------------------- the handlers
PartialResult(id, handled, p, err) ==
    [id |-> id, handled |-> handled, payload |-> p, err |-> err]

ValidationErrors ==
    [action |-> RAErrors, errors |-> {<<blockIdOptional, OtherComponentMessage>>}]

\* Mutant: the validator never looks at the "other" component.
validateSubmissionHandler_NeverClaims(cb, marshalOk) ==
    PartialResult("bug.validate", FALSE, NoPayload, NoErr)

\* Mutant: the comparison with the empty string is inverted.
validateSubmissionHandler_RejectsFilled(cb, marshalOk) ==
    LET otherSelected == \E v \in cb.category : v = componentOther
    IN  IF otherSelected /\ (\E v \in cb.optional : v # "")
        THEN IF marshalOk
             THEN PartialResult("bug.validate", TRUE, ValidationErrors, NoErr)
             ELSE PartialResult("bug.validate", TRUE, NoPayload, MarshalError)
        ELSE PartialResult("bug.validate", FALSE, NoPayload, NoErr)

\* Mutant: a marshaling failure is returned without claiming the input.
validateSubmissionHandler_UnclaimedOnMarshalError(cb, marshalOk) ==
    LET otherSelected == \E v \in cb.category : v = componentOther
    IN  IF otherSelected /\ (\E v \in cb.optional : v = "")
        THEN IF marshalOk
             THEN PartialResult("bug.validate", TRUE, ValidationErrors, NoErr)
             ELSE PartialResult("bug.validate", FALSE, NoPayload, MarshalError)
        ELSE PartialResult("bug.validate", FALSE, NoPayload, NoErr)

\* if someone selected the "other" component, make sure they fill in the field
\* Mutant: a qualifier block without any action counts as an empty qualifier.
validateSubmissionHandler_MissingIsEmpty(cb, marshalOk) ==
    LET otherSelected == \E v \in cb.category : v = componentOther
    IN  IF otherSelected /\ (cb.optional = {} \/ \E v \in cb.optional : v = "")
        THEN IF marshalOk
             THEN PartialResult("bug.validate", TRUE, ValidationErrors, NoErr)
             ELSE PartialResult("bug.validate", TRUE, NoPayload, MarshalError)
        ELSE PartialResult("bug.validate", FALSE, NoPayload, NoErr)

validateSubmissionHandler(cb, marshalOk) ==
    LET otherSelected == \E v \in cb.category : v = componentOther
    IN  IF otherSelected /\ (\E v \in cb.optional : v = "")
        THEN IF marshalOk
             THEN PartialResult("bug.validate", TRUE, ValidationErrors, NoErr)
             ELSE PartialResult("bug.validate", TRUE, NoPayload, MarshalError)
        ELSE PartialResult("bug.validate", FALSE, NoPayload, NoErr)

\* The value a block contributes to the template's data: the value of its
\* action, the empty string when the block has none.
FieldValue(block) == IF block = {} THEN "" ELSE CHOOSE v \in block : TRUE

\* The template's data: plain text by block id, the selected option of a
\* select under <block id>_static_select.
TemplateData(cb) ==
    [symptom |-> cb.symptom, expected |-> cb.expected,
     category_static_select |-> FieldValue(cb.category),
     optional |-> FieldValue(cb.optional)]

\* Mutant: the branches of the template's conditional are exchanged.
issueParameters_BranchesExchanged(data) ==
    <<"h3. Symptomatic Behavior\n", data.symptom,
      "\n\nh3. Expected Behavior\n", data.expected,
      "\n\nh3. Category\n">>
    \o (IF data.category_static_select # "Other"
        THEN <<"Other: ", data.optional>>
        ELSE <<data.category_static_select>>)

\* The issue body: the template executed on the data, as the sequence of the
\* pieces of text it writes.
issueParameters(data) ==
    <<"h3. Symptomatic Behavior\n", data.symptom,
      "\n\nh3. Expected Behavior\n", data.expected,
      "\n\nh3. Category\n">>
    \o (IF data.category_static_select = "Other"
        THEN <<"Other: ", data.optional>>
        ELSE <<data.category_static_select>>)

\* The issue handler starts the filing as a task of its own and returns at once.
ToJiraIssue(cb) == [id |-> "bug.jira", payload |-> NoPayload, err |-> NoErr]

\* A full handler always claims its input.
PartialFromHandler(h) == PartialResult(h.id, TRUE, h.payload, h.err)

processSubmissionHandler(cb) == PartialFromHandler(ToJiraIssue(cb))

\* Try each handler in order; the first to claim the input decides.  `ran`
\* lists what the handlers that were invoked returned.
RECURSIVE MultiHandlerFrom(_, _, _)
MultiHandlerFrom(hs, i, ran) ==
    IF i > Len(hs)
    THEN [handled |-> FALSE, payload |-> NoPayload, err |-> NoErr, ran |-> ran]
    ELSE IF hs[i].handled
         THEN [handled |-> TRUE, payload |-> hs[i].payload, err |-> hs[i].err,
               ran |-> Append(ran, hs[i])]
         ELSE MultiHandlerFrom(hs, i + 1, Append(ran, hs[i]))

\* Mutant: every handler is tried and the last one to claim the input decides.
RECURSIVE MultiHandlerLastFrom(_, _, _)
MultiHandlerLastFrom(hs, i, out) ==
    IF i > Len(hs)
    THEN out
    ELSE MultiHandlerLastFrom(hs, i + 1,
            IF hs[i].handled
            THEN [handled |-> TRUE, payload |-> hs[i].payload, err |-> hs[i].err,
                  ran |-> Append(out.ran, hs[i])]
            ELSE [out EXCEPT !.ran = Append(out.ran, hs[i])])

MultiHandler_LastClaimWins(hs) ==
    MultiHandlerLastFrom(hs, 1,
        [handled |-> FALSE, payload |-> NoPayload, err |-> NoErr, ran |-> << >>])

MultiHandler(hs) == MultiHandlerFrom(hs, 1, << >>)

\* Mutant: the chain is registered for closing the view as well.
RegisterTypes_WithViewClosed == {InteractionTypeViewSubmission, InteractionTypeViewClosed}

\* The follow-up chains of the bug flow, by interaction type.
RegisterTypes == {InteractionTypeViewSubmission}

Register(cb, marshalOk) ==
    MultiHandler(<<validateSubmissionHandler(cb, marshalOk),
                   processSubmissionHandler(cb)>>)

RegisteredFlows == {Identifier}

\* The modal router: flow identifier from the private metadata, then the
\* follow-up chain of the interaction type.
ForModals(cb, marshalOk) ==
    IF cb.flow \notin RegisteredFlows
    THEN [handled |-> TRUE, payload |-> NoPayload, err |-> RoutingMiss, ran |-> << >>]
    ELSE IF cb.itype \notin RegisterTypes
         THEN [handled |-> FALSE, payload |-> NoPayload, err |-> NoErr, ran |-> << >>]
         ELSE Register(cb, marshalOk)

\* The mention handler claims the events that address the bot.
mentionHandler(evType) ==
    PartialResult("mention", evType = "app_mention", NoPayload, NoErr)

\* Mutant: an event no handler claims is reported as a routing error.
ForEvents_ErrorsWhenUnclaimed(evType) ==
    LET r == MultiHandler(<<mentionHandler(evType)>>)
    IN  IF r.handled THEN r ELSE [r EXCEPT !.err = RoutingMiss]

ForEvents(evType) == MultiHandler(<<mentionHandler(evType)>>)

Ran(r, id) == \E i \in 1..Len(r.ran) : r.ran[i].id = id

\* --------------------------------------------------------------- the state
Init ==
    /\ deliveries = << >>
    /\ pc = "select"
    /\ cancelled = FALSE
    /\ payload = NoPayload
    /\ acks = << >>
    /\ routed = {}
    /\ results = << >>
    /\ marshal \in BOOLEAN
    /\ tasks = {}
    /\ trackerCalls = << >>
    /\ viewUpdates = << >>
    /\ logs = {}
    /\ mentions = {}
    /\ eventResults = << >>
    /\ exited = FALSE
    /\ chain = << >>
    /\ chainOut = << >>

Cur == Len(deliveries)
event == deliveries[Cur]

\* case event := <-socketClient.Events
Receive ==
    /\ ~exited
    /\ pc = "select"
    /\ Len(deliveries) < MaxDeliveries
    /\ \E e \in Envelopes : deliveries' = Append(deliveries, e)
    /\ pc' = "switch"
    /\ UNCHANGED <<cancelled, payload, acks, routed, results, marshal, tasks, trackerCalls,
                   viewUpdates, logs, mentions, eventResults, exited,
                   chain, chainOut>>

\* case <-ctx.Done(): return
Stop ==
    /\ ~exited
    /\ pc = "select"
    /\ cancelled
    /\ pc' = "stopped"
    /\ UNCHANGED <<deliveries, cancelled, payload, acks, routed, results, marshal, tasks,
                   trackerCalls, viewUpdates, logs, mentions, eventResults, exited,
                   chain, chainOut>>

\* socketClient.Run() has returned: the deferred cancel()
Cancel ==
    /\ ~cancelled
    /\ cancelled' = TRUE
    /\ UNCHANGED <<deliveries, pc, payload, acks, routed, results, marshal, tasks,
                   trackerCalls, viewUpdates, logs, mentions, eventResults, exited,
                   chain, chainOut>>

\* main returns after the deferred cancel(): the process exits, and with it
\* the dispatch goroutine and every filing task still in flight.
Exit ==
    /\ cancelled
    /\ ~exited
    /\ exited' = TRUE
    /\ UNCHANGED <<deliveries, pc, cancelled, payload, acks, routed, results, marshal,
                   tasks, trackerCalls, viewUpdates, logs, mentions, eventResults,
                   chain, chainOut>>

\* Mutant: the event is routed without being acknowledged.
SwitchEventsAPI_SkipAck ==
    /\ ~exited
    /\ pc = "switch"
    /\ event.kind = EventTypeEventsAPI
    /\ IF event.typed
       THEN pc' = "route_event" /\ logs' = logs
       ELSE /\ pc' = "select"
            /\ logs' = logs \cup {[d |-> Cur, msg |-> "Could not type cast the event to the EventsAPIEvent", arg |-> NoPayload]}
    /\ UNCHANGED <<deliveries, cancelled, payload, acks, routed, results, marshal, tasks,
                   trackerCalls, viewUpdates, mentions, eventResults, exited,
                   chain, chainOut>>

\* case socketmode.EventTypeEventsAPI: the type assertion
SwitchEventsAPI ==
    /\ ~exited
    /\ pc = "switch"
    /\ event.kind = EventTypeEventsAPI
    /\ IF event.typed
       THEN pc' = "ack_event" /\ logs' = logs
       ELSE /\ pc' = "select"
            /\ logs' = logs \cup {[d |-> Cur, msg |-> "Could not type cast the event to the EventsAPIEvent", arg |-> NoPayload]}
    /\ UNCHANGED <<deliveries, cancelled, payload, acks, routed, results, marshal, tasks,
                   trackerCalls, viewUpdates, mentions, eventResults, exited,
                   chain, chainOut>>

\* socketClient.Ack(*event.Request)
AckEvent ==
    /\ ~exited
    /\ pc = "ack_event"
    /\ acks' = Append(acks, [d |-> Cur, payload |-> << >>])
    /\ pc' = "route_event"
    /\ UNCHANGED <<deliveries, cancelled, payload, routed, results, marshal, tasks,
                   trackerCalls, viewUpdates, logs, mentions, eventResults, exited,
                   chain, chainOut>>

\* eventrouter.ForEvents(slackClient).Handle(&eventData, logger)
RouteEvent ==
    /\ ~exited
    /\ pc = "route_event"
    /\ routed' = routed \cup {Cur}
    /\ mentions' = IF ForEvents(event.evType).handled THEN mentions \cup {Cur} ELSE mentions
    /\ eventResults' = (Cur :> ForEvents(event.evType)) @@ eventResults
    /\ pc' = "select"
    /\ UNCHANGED <<deliveries, cancelled, payload, acks, results, marshal, tasks,
                   trackerCalls, viewUpdates, logs, exited,
                   chain, chainOut>>

\* case socketmode.EventTypeInteractive: the type assertion
SwitchInteractive ==
    /\ ~exited
    /\ pc = "switch"
    /\ event.kind = EventTypeInteractive
    /\ IF event.typed
       THEN pc' = "handle_interaction" /\ logs' = logs
       ELSE /\ pc' = "select"
            /\ logs' = logs \cup {[d |-> Cur, msg |-> "Could not type cast the event to the InteractionCallback", arg |-> NoPayload]}
    /\ UNCHANGED <<deliveries, cancelled, payload, acks, routed, results, marshal, tasks,
                   trackerCalls, viewUpdates, mentions, eventResults, exited,
                   chain, chainOut>>

\* Mutant: the error returned by the router is dropped.
HandleInteraction_IgnoresErr ==
    /\ ~exited
    /\ pc = "handle_interaction"
    /\ LET r == ForModals(event.cb, marshal)
       IN  /\ routed' = routed \cup {Cur}
           /\ results' = (Cur :> r) @@ results
           /\ tasks' = IF Ran(r, "bug.jira") THEN tasks \cup {Cur} ELSE tasks
           /\ logs' = logs
           /\ payload' = r.payload
           /\ pc' = "ack_interaction"
    /\ UNCHANGED <<deliveries, cancelled, acks, marshal, trackerCalls, viewUpdates,
                   mentions, eventResults, exited,
                   chain, chainOut>>

\* Mutant: an error from the router ends the dispatch goroutine.
HandleInteraction_ReturnsOnErr ==
    /\ ~exited
    /\ pc = "handle_interaction"
    /\ LET r == ForModals(event.cb, marshal)
       IN  /\ routed' = routed \cup {Cur}
           /\ results' = (Cur :> r) @@ results
           /\ tasks' = IF Ran(r, "bug.jira") THEN tasks \cup {Cur} ELSE tasks
           /\ IF r.err # NoErr
              THEN /\ logs' = logs \cup {[d |-> Cur, msg |-> "error building payload", arg |-> r.payload]}
                   /\ payload' = NoPayload
                   /\ pc' = "stopped"
              ELSE /\ logs' = logs
                   /\ payload' = r.payload
                   /\ pc' = "ack_interaction"
    /\ UNCHANGED <<deliveries, cancelled, acks, marshal, trackerCalls, viewUpdates,
                   mentions, eventResults, exited, chain, chainOut>>

\* Mutant: the filing runs inline: Handle returns only when it is over.
HandleInteraction_FilesInline ==
    /\ ~exited
    /\ pc \in {"handle_interaction", "wait_filing"}
    /\ IF pc = "wait_filing"
       THEN /\ Cur \notin tasks
            /\ pc' = "ack_interaction"
            /\ UNCHANGED <<routed, results, tasks, logs, payload>>
       ELSE LET r == ForModals(event.cb, marshal)
            IN  /\ routed' = routed \cup {Cur}
                /\ results' = (Cur :> r) @@ results
                /\ tasks' = IF Ran(r, "bug.jira") THEN tasks \cup {Cur} ELSE tasks
                /\ IF r.err # NoErr
                   THEN /\ logs' = logs \cup {[d |-> Cur, msg |-> "error building payload", arg |-> r.payload]}
                        /\ payload' = NoPayload
                        /\ pc' = "select"
                   ELSE /\ logs' = logs
                        /\ payload' = r.payload
                        /\ pc' = IF Ran(r, "bug.jira") THEN "wait_filing" ELSE "ack_interaction"
    /\ UNCHANGED <<deliveries, cancelled, acks, marshal, trackerCalls, viewUpdates,
                   mentions, eventResults, exited, chain, chainOut>>

\* payload, err := interactionrouter.ForModals(...).Handle(&interactionData, logger)
\* and the error check after it
HandleInteraction ==
    /\ ~exited
    /\ pc = "handle_interaction"
    /\ LET r == ForModals(event.cb, marshal)
       IN  /\ routed' = routed \cup {Cur}
           /\ results' = (Cur :> r) @@ results
           /\ tasks' = IF Ran(r, "bug.jira") THEN tasks \cup {Cur} ELSE tasks
           /\ IF r.err # NoErr
              THEN /\ logs' = logs \cup {[d |-> Cur, msg |-> "error building payload", arg |-> r.payload]}
                   /\ payload' = NoPayload
                   /\ pc' = "select"
              ELSE /\ logs' = logs
                   /\ payload' = r.payload
                   /\ pc' = "ack_interaction"
    /\ UNCHANGED <<deliveries, cancelled, acks, marshal, trackerCalls, viewUpdates,
                   mentions, eventResults, exited,
                   chain, chainOut>>

\* socketClient.Ack(*event.Request, payload)
\* Mutant: the acknowledgment of an interaction is handed to a goroutine of
\* its own, which sends it at any later time.
AckInteraction_Deferred ==
    /\ ~exited
    /\ \/ /\ pc = "ack_interaction"
          /\ pc' = "select"
          /\ payload' = NoPayload
          /\ acks' = acks
       \/ /\ \E d \in 1..Len(deliveries) :
                /\ d \in routed
                /\ deliveries[d].kind = EventTypeInteractive
                /\ results[d].err = NoErr
                /\ (d = Len(deliveries) => pc = "select")
                /\ \A i \in 1..Len(acks) : acks[i].d # d
                /\ acks' = Append(acks, [d |-> d, payload |-> <<results[d].payload>>])
          /\ UNCHANGED <<pc, payload>>
    /\ UNCHANGED <<deliveries, cancelled, routed, results, marshal, tasks, trackerCalls,
                   viewUpdates, logs, mentions, eventResults, exited,
                   chain, chainOut>>

\* Mutant: the acknowledgment of an interaction is sent without the payload.
AckInteraction_NoPayload ==
    /\ ~exited
    /\ pc = "ack_interaction"
    /\ acks' = Append(acks, [d |-> Cur, payload |-> << >>])
    /\ payload' = NoPayload
    /\ pc' = "select"
    /\ UNCHANGED <<deliveries, cancelled, routed, results, marshal, tasks, trackerCalls,
                   viewUpdates, logs, mentions, eventResults, exited,
                   chain, chainOut>>

AckInteraction ==
    /\ ~exited
    /\ pc = "ack_interaction"
    /\ acks' = Append(acks, [d |-> Cur, payload |-> <<payload>>])
    /\ payload' = NoPayload
    /\ pc' = "select"
    /\ UNCHANGED <<deliveries, cancelled, routed, results, marshal, tasks, trackerCalls,
                   viewUpdates, logs, mentions, eventResults, exited,
                   chain, chainOut>>

\* any other event type: no case of the switch matches
SwitchOther ==
    /\ ~exited
    /\ pc = "switch"
    /\ event.kind \notin {EventTypeEventsAPI, EventTypeInteractive}
    /\ pc' = "select"
    /\ UNCHANGED <<deliveries, cancelled, payload, acks, routed, results, marshal, tasks,
                   trackerCalls, viewUpdates, logs, mentions, eventResults, exited,
                   chain, chainOut>>

\* Mutant: a failed tracker call is tried again.
FilingTask_RetriesOnFailure(d) ==
    /\ ~exited
    /\ d \in tasks
    /\ Len(trackerCalls) < 2 * MaxDeliveries
    /\ \E ok \in BOOLEAN :
         LET cb == deliveries[d].cb
             ticket == IF ok THEN Len(trackerCalls) + 1 ELSE 0
         IN  /\ trackerCalls' = Append(trackerCalls,
                    [d |-> d, key |-> SubmissionKey(cb), ok |-> ok, ticket |-> ticket,
                     seen |-> Len(deliveries),
                     body |-> issueParameters(TemplateData(cb))])
             /\ viewUpdates' = Append(viewUpdates,
                    [d |-> d, view |-> cb.view, ok |-> ok, ticket |-> ticket])
             /\ tasks' = IF ok THEN tasks \ {d} ELSE tasks
    /\ UNCHANGED <<deliveries, pc, cancelled, payload, acks, routed, results,
                   marshal, logs, mentions, eventResults, exited, chain, chainOut>>

\* The filing task of delivery d: one tracker call, then the view update.
FilingTask(d) ==
    /\ ~exited
    /\ d \in tasks
    /\ \E ok \in BOOLEAN :
         LET cb == deliveries[d].cb
             ticket == IF ok THEN Len(trackerCalls) + 1 ELSE 0
         IN  /\ trackerCalls' = Append(trackerCalls,
                    [d |-> d, key |-> SubmissionKey(cb), ok |-> ok, ticket |-> ticket,
                     seen |-> Len(deliveries),
                     body |-> issueParameters(TemplateData(cb))])
             /\ viewUpdates' = Append(viewUpdates,
                    [d |-> d, view |-> cb.view, ok |-> ok, ticket |-> ticket])
    /\ tasks' = tasks \ {d}
    /\ UNCHANGED <<deliveries, pc, cancelled, payload, acks, routed, results,
                   marshal, logs, mentions, eventResults, exited,
                   chain, chainOut>>

Next ==
    \/ Receive
    \/ Stop
    \/ Cancel
    \/ Exit
    \/ SwitchEventsAPI
    \/ AckEvent
    \/ RouteEvent
    \/ SwitchInteractive
    \/ HandleInteraction
    \/ AckInteraction
    \/ SwitchOther
    \/ \E d \in 1..MaxDeliveries : FilingTask(d)

Spec == Init /\ [][Next]_vars

\* ------------------------------------------- composition on arbitrary chains
HandlerIds == <<"h1", "h2", "h3", "h4", "h5">>

\* What the i-th handler of a chain may return.
HandlerResults(i) ==
    {PartialResult(HandlerIds[i], h, p, e) :
        h \in BOOLEAN, p \in {NoPayload, ValidationErrors}, e \in {NoErr, MarshalError}}

Chains ==
    UNION {{c \in [1..n -> UNION {HandlerResults(i) : i \in 1..n}] :
              \A i \in 1..n : c[i] \in HandlerResults(i)} : n \in 0..MaxHandlers}

ChainInit ==
    /\ deliveries = << >>
    /\ pc = "select"
    /\ cancelled = FALSE
    /\ payload = NoPayload
    /\ acks = << >>
    /\ routed = {}
    /\ results = << >>
    /\ marshal = TRUE
    /\ tasks = {}
    /\ trackerCalls = << >>
    /\ viewUpdates = << >>
    /\ logs = {}
    /\ mentions = {}
    /\ eventResults = << >>
    /\ exited = FALSE
    /\ chain \in Chains
    /\ chainOut = << >>

\* Handle of the composed handler
Compose ==
    /\ chainOut = << >>
    /\ chainOut' = <<MultiHandler(chain)>>
    /\ UNCHANGED <<deliveries, pc, cancelled, payload, acks, routed, results, marshal,
                   tasks, trackerCalls, viewUpdates, logs, mentions, eventResults, exited, chain>>

ChainNext == Compose

ChainSpec == ChainInit /\ [][ChainNext]_vars

\* ------------------------------------------------------------- vocabulary
Delivered == 1..Len(deliveries)
Acked(d) == \E i \in 1..Len(acks) : acks[i].d = d
CallsFor(d) == {i \in 1..Len(trackerCalls) : trackerCalls[i].d = d}
UpdatesFor(d) == {i \in 1..Len(viewUpdates) : viewUpdates[i].d = d}
\* The dispatch loop is through with delivery d.
Finished(d) == d < Cur \/ (d = Cur /\ pc \in {"select", "stopped"})
IsInteraction(d) == deliveries[d].kind = EventTypeInteractive /\ deliveries[d].typed
IsEvent(d) == deliveries[d].kind = EventTypeEventsAPI /\ deliveries[d].typed
IsBugSubmission(d) ==
    /\ IsInteraction(d)
    /\ deliveries[d].cb.flow = Identifier
    /\ deliveries[d].cb.itype = InteractionTypeViewSubmission
OtherWithEmptyQualifier(cb) == componentOther \in cb.category /\ "" \in cb.optional
ValidFields(cb) ==
    \/ componentOther \notin cb.category
    \/ (cb.optional # {} /\ "" \notin cb.optional)
Unclaimed == [handled |-> FALSE, payload |-> NoPayload, err |-> NoErr, ran |-> << >>]

\* C1: no two calls to the tracker client stem from deliveries of the same
\* InteractionCallback (same flow identifier, user, view instance, content).
AtMostOneCreatePerSubmission ==
    \A i, j \in 1..Len(trackerCalls) :
        deliveries[trackerCalls[i].d] = deliveries[trackerCalls[j].d] => i = j

\* C2 (as amended): an events-API envelope that is routed to the event handlers
\* was acknowledged before; an interaction envelope is acknowledged only after
\* its handler chain has returned, and only when it returned no error.
AckBeforeEventRouteAfterInteractionRoute ==
    \A d \in Delivered :
        /\ (IsEvent(d) /\ d \in routed) => Acked(d)
        /\ (IsInteraction(d) /\ Acked(d)) => (d \in routed /\ results[d].err = NoErr)

AckedEventAndInteraction ==
    /\ \E d \in Delivered : IsEvent(d) /\ d \in routed /\ Acked(d)
    /\ \E d \in Delivered : IsInteraction(d) /\ d \in routed /\ Acked(d)

\* C2 (as stated): whenever an acknowledgment is sent, its envelope has not
\* been routed to a handler chain yet.
AckSentBeforeRouting ==
    [][Len(acks') > Len(acks) => acks'[Len(acks')].d \notin routed]_vars

\* C3: every envelope that was routed to a handler chain has been acknowledged
\* by the time the dispatch loop is through with it, whatever the chain returned.
EveryRoutedEnvelopeAcked ==
    \A d \in routed : Finished(d) => Acked(d)

\* C4: when a callback is delivered again after its first delivery was filed
\* successfully, every ticket surfaced for the later delivery is the ticket of
\* the first filing.
RedeliverySurfacesSameTicket ==
    \A i \in 1..Len(trackerCalls) : \A u \in 1..Len(viewUpdates) :
        LET first == trackerCalls[i]
            later == viewUpdates[u]
        IN  (/\ first.ok
             /\ later.d > first.seen
             /\ deliveries[later.d] = deliveries[first.d])
            => (later.ok /\ later.ticket = first.ticket)

ValidSubmissionFiledOnce ==
    \A d \in DOMAIN results :
        (IsBugSubmission(d) /\ ValidFields(deliveries[d].cb)) =>
            /\ Len(results[d].ran) = 2
            /\ results[d].ran[1] = PartialResult("bug.validate", FALSE, NoPayload, NoErr)
            /\ results[d].ran[2].id = "bug.jira"
            /\ Cardinality(CallsFor(d)) = (IF d \in tasks THEN 0 ELSE 1)

ValidOtherSubmissionFiled ==
    \E d \in DOMAIN results :
        /\ IsBugSubmission(d)
        /\ componentOther \in deliveries[d].cb.category
        /\ ValidFields(deliveries[d].cb)
        /\ Cardinality(CallsFor(d)) = 1

\* C7: the composed handler invokes its handlers in order up to the first one
\* that claims the input, returns that handler's payload and error unmodified,
\* invokes no handler after it, and returns unclaimed with no error and no
\* payload, after invoking them all, when none claims the input.
FirstClaimWins ==
    chainOut # << >> =>
        LET out == chainOut[1]
            claiming == {i \in 1..Len(chain) : chain[i].handled}
        IN  IF claiming = {}
            THEN /\ ~out.handled
                 /\ out.payload = NoPayload
                 /\ out.err = NoErr
                 /\ out.ran = chain
            ELSE LET k == CHOOSE i \in claiming : \A j \in claiming : i <= j
                 IN  /\ out.handled
                     /\ out.payload = chain[k].payload
                     /\ out.err = chain[k].err
                     /\ out.ran = SubSeq(chain, 1, k)

SecondOfThreeClaimed ==
    /\ chainOut # << >>
    /\ Len(chain) = 3
    /\ ~chain[1].handled
    /\ chain[2].handled
    /\ chain[3].handled
    /\ chain[3].payload # chain[2].payload
    /\ Len(chainOut[1].ran) = 2

\* C8: a handler that claims the input with an error ends the chain and its
\* error is the composed handler's error; in the bug flow a failure to marshal
\* the validation response is returned as the error of the chain, the
\* processing handler is not run and no ticket is filed.
ClaimedErrorEndsChain ==
    \A d \in DOMAIN results :
        /\ \A i \in 1..Len(results[d].ran) :
              (results[d].ran[i].handled /\ results[d].ran[i].err # NoErr) =>
                  /\ i = Len(results[d].ran)
                  /\ results[d].handled
                  /\ results[d].err = results[d].ran[i].err
        /\ (IsBugSubmission(d) /\ OtherWithEmptyQualifier(deliveries[d].cb) /\ ~marshal) =>
              /\ results[d].err = MarshalError
              /\ ~Ran(results[d], "bug.jira")
              /\ d \notin tasks
              /\ CallsFor(d) = {}
              /\ UpdatesFor(d) = {}

MarshalFailureReturned ==
    \E d \in DOMAIN results :
        /\ IsBugSubmission(d)
        /\ results[d].err = MarshalError
        /\ Finished(d)
        /\ \E l \in logs : l.d = d

\* C9: an interaction whose flow identifier matches no registered flow is
\* claimed with a RoutingMiss error, the dispatch loop prints an error line
\* for it, no follow-up handler runs and no tracker call or view update is made.
RoutingMissSurfaced ==
    \A d \in DOMAIN results :
        deliveries[d].cb.flow # Identifier =>
            /\ results[d].handled
            /\ results[d].err = RoutingMiss
            /\ results[d].ran = << >>
            /\ \E l \in logs : l.d = d /\ l.msg = "error building payload"
            /\ d \notin tasks
            /\ CallsFor(d) = {}
            /\ UpdatesFor(d) = {}

StaleFlowRouted ==
    \E d \in DOMAIN results :
        /\ deliveries[d].cb.flow = "stale"
        /\ results[d].err = RoutingMiss
        /\ Finished(d)

\* C10: an interaction of the bug flow whose type is not view-submission is
\* returned unclaimed with no error and no payload; it makes no tracker call
\* and no view update.
UnregisteredTypeUnclaimed ==
    \A d \in DOMAIN results :
        (/\ deliveries[d].cb.flow = Identifier
         /\ deliveries[d].cb.itype # InteractionTypeViewSubmission) =>
            /\ results[d] = Unclaimed
            /\ d \notin tasks
            /\ CallsFor(d) = {}
            /\ UpdatesFor(d) = {}

ViewClosedRouted ==
    \E d \in DOMAIN results :
        /\ deliveries[d].cb.flow = Identifier
        /\ deliveries[d].cb.itype = InteractionTypeViewClosed
        /\ Acked(d)

\* C11: the dispatch goroutine ends only on cancellation, whatever errors the
\* envelopes before produced, and every envelope it is through with was handled
\* by its own kind alone: a typed event acknowledged and routed, a typed
\* interaction routed, and acknowledged exactly when its chain returned no error;
\* the same callback gets the same result wherever it comes in the run.
ErrorsDoNotStopLoop ==
    /\ pc = "stopped" => cancelled
    /\ \A d \in Delivered : Finished(d) =>
          /\ IsEvent(d) => (Acked(d) /\ d \in routed)
          /\ IsInteraction(d) =>
                (d \in routed /\ (Acked(d) <=> results[d].err = NoErr))
    /\ \A d1, d2 \in DOMAIN results :
          deliveries[d1] = deliveries[d2] => results[d1] = results[d2]

HandledAfterError ==
    \E d1, d2 \in Delivered :
        /\ d1 < d2
        /\ \E l \in logs : l.d = d1
        /\ IsBugSubmission(d2)
        /\ Acked(d2)
        /\ \E i \in CallsFor(d2) : ~trackerCalls[i].ok

\* C12: when the process exits after shutdown was signalled, no filing task is
\* still in flight: the filings that were in flight have completed.
InFlightFilingsCompleteBeforeExit ==
    exited => tasks = {}

\* C13: when the tracker client returns an error for the filing of a delivery,
\* the view is updated with a failure notice for it, the filing task is over
\* and the tracker client was called once for that delivery.
FailedFilingIsTerminal ==
    \A i \in 1..Len(trackerCalls) :
        ~trackerCalls[i].ok =>
            LET d == trackerCalls[i].d
            IN  /\ \E u \in UpdatesFor(d) :
                      /\ ~viewUpdates[u].ok
                      /\ viewUpdates[u].view = deliveries[d].cb.view
                /\ d \notin tasks
                /\ CallsFor(d) = {i}

FilingFailed ==
    \E i \in 1..Len(trackerCalls) :
        /\ ~trackerCalls[i].ok
        /\ Finished(trackerCalls[i].d)
        /\ Cur > trackerCalls[i].d

\* C14: an events-API event that none of the event handlers claims is routed
\* with no error and no payload, is claimed by nobody, prints no log line,
\* starts no filing, makes no tracker call and no view update, and leaves the
\* dispatch loop ready for the next envelope.
UnclaimedEventDropped ==
    \A d \in DOMAIN eventResults :
        (\A i \in 1..Len(eventResults[d].ran) : ~eventResults[d].ran[i].handled) =>
            /\ ~eventResults[d].handled
            /\ eventResults[d].err = NoErr
            /\ eventResults[d].payload = NoPayload
            /\ d \notin mentions
            /\ ~\E l \in logs : l.d = d
            /\ d \notin tasks
            /\ CallsFor(d) = {}
            /\ UpdatesFor(d) = {}
            /\ Finished(d)
            /\ (pc = "stopped" => cancelled)

UnclaimedEventThenNext ==
    \E d \in DOMAIN eventResults :
        /\ deliveries[d].evType = "message"
        /\ ~eventResults[d].handled
        /\ Cur > d
        /\ Acked(Cur)

\* C15: the issue body filed for a valid bug submission has the submitted
\* symptom text under the symptom heading and the submitted expected text
\* under the expected heading, verbatim, and its category section is "Other: "
\* followed by the qualifier text when the selected category is "Other" and
\* the selected category value itself otherwise.
BodyCarriesSubmittedText ==
    \A i \in 1..Len(trackerCalls) :
        LET body == trackerCalls[i].body
            cb == deliveries[trackerCalls[i].d].cb
        IN  ValidFields(cb) =>
              /\ Len(body) >= 6
              /\ body[1] = "h3. Symptomatic Behavior\n"
              /\ body[2] = cb.symptom
              /\ body[3] = "\n\nh3. Expected Behavior\n"
              /\ body[4] = cb.expected
              /\ body[5] = "\n\nh3. Category\n"
              /\ IF componentOther \in cb.category
                 THEN /\ Len(body) = 7
                      /\ body[6] = "Other: "
                      /\ {body[7]} = cb.optional
                 ELSE /\ Len(body) = 6
                      /\ {body[6]} = cb.category

OtherAndPlainBodiesFiled ==
    /\ \E i \in 1..Len(trackerCalls) :
          /\ componentOther \in deliveries[trackerCalls[i].d].cb.category
          /\ trackerCalls[i].body[7] = "db"
    /\ \E i \in 1..Len(trackerCalls) :
          /\ trackerCalls[i].body[2] = "hang"
          /\ trackerCalls[i].body[6] = componentSNO

\* The Go scheduler runs every runnable goroutine of a live process: a filing
\* task that has been started takes its step unless the process exits first.
FairSpec ==
    Init /\ [][Next]_vars /\ \A d \in 1..MaxDeliveries : WF_vars(FilingTask(d))

\* The steps of the dispatch goroutine.
LoopStep ==
    \/ Receive
    \/ Stop
    \/ SwitchEventsAPI
    \/ AckEvent
    \/ RouteEvent
    \/ SwitchInteractive
    \/ HandleInteraction
    \/ AckInteraction
    \/ SwitchOther

\* C16: while a filing is in flight the dispatch goroutine is never held up:
\* in every such state of the running process it has a step to take, and at
\* its select it can take the next envelope.
FilingDoesNotBlockLoop ==
    (tasks # {} /\ ~exited /\ pc # "stopped") =>
        IF pc = "select"
        THEN Len(deliveries) < MaxDeliveries => ENABLED Receive
        ELSE ENABLED LoopStep

LaterEnvelopeAckedDuringFiling ==
    \E d \in tasks : \E d2 \in Delivered :
        /\ d2 > d
        /\ Acked(d2)
        /\ CallsFor(d) = {}

\* C17: acknowledgments are sent in receipt order: of two acknowledged
\* envelopes the one received first is acknowledged first, and no envelope is
\* acknowledged twice, whatever the filing tasks do in between.
AcksInReceiptOrder ==
    \A i \in 1..Len(acks) : \A j \in 1..Len(acks) :
        i < j => acks[i].d < acks[j].d

TwoAcksAroundFiling ==
    /\ Len(acks) = 2
    /\ \E c \in 1..Len(trackerCalls) :
         /\ trackerCalls[c].d = acks[1].d
         /\ trackerCalls[c].seen = acks[2].d

\* C18: every filing that a submission flow starts is eventually followed by
\* an invocation of the View Updater for that submission, whether the tracker
\* call succeeds or fails.
FilingLeadsToViewUpdate ==
    \A d \in 1..MaxDeliveries : (d \in tasks) ~> (UpdatesFor(d) # {})

\* What the program does guarantee: the view update follows unless the
\* process exits first, and no tracker call is left without its view update.
FilingLeadsToViewUpdateOrExit ==
    \A d \in 1..MaxDeliveries : (d \in tasks) ~> (UpdatesFor(d) # {} \/ exited)

EveryTrackerCallHasViewUpdate ==
    /\ Len(viewUpdates) = Len(trackerCalls)
    /\ \A i \in 1..Len(trackerCalls) :
         /\ viewUpdates[i].d = trackerCalls[i].d
         /\ viewUpdates[i].ok = trackerCalls[i].ok

\* C19: the acknowledgment of an interaction callback carries exactly the
\* payload its handler chain returned (the validation errors when validation
\* fails), and the acknowledgment of an events-API event carries no payload.
AckCarriesChainPayload ==
    \A i \in 1..Len(acks) :
        LET d == acks[i].d
        IN  /\ IsInteraction(d) =>
                /\ d \in routed
                /\ acks[i].payload = <<results[d].payload>>
            /\ IsEvent(d) => acks[i].payload = << >>
            /\ IsInteraction(d) \/ IsEvent(d)

ErrorsAckedAndEventAcked ==
    \E i \in 1..Len(acks) : \E j \in 1..Len(acks) :
        /\ IsInteraction(acks[i].d)
        /\ OtherWithEmptyQualifier(deliveries[acks[i].d].cb)
        /\ acks[i].payload = <<ValidationErrors>>
        /\ IsEvent(acks[j].d)

\* C20: a bug submission that selects "Other" and carries no action at all in
\* the qualifier block is not claimed by the validator (handled = false, no
\* payload, no error), so the chain goes on to the filing handler.
OtherWithoutQualifierEntry(cb) == componentOther \in cb.category /\ cb.optional = {}

====
